---- MODULE Spec2Model ----
(***************************************************************************)
(* Model of src/app.py: the Streamlit page "Ask William" with its session  *)
(* state (st.session_state.messages), the Clear and Submit button handlers *)
(* and the three response helpers.                                         *)
(*                                                                         *)
(* A Streamlit script run is sequential and runs to completion (or to      *)
(* st.stop / an unhandled exception) before the next widget event is       *)
(* served, so each button handler is one action.  The outcome of every     *)
(* remote call and file operation is an input of the step that issues it.  *)
(*                                                                         *)
(* Texts are sequences of one-character strings so that str.strip,         *)
(* str.startswith and len are computed; None is the reserved value None.   *)
(*                                                                         *)
(* src/app.py line 210 is indented less than the try block it sits in      *)
(* (lines 203-216); the model reads it as a statement of that try block,   *)
(* the only reading under which lines 203-216 form a try statement.        *)
(***************************************************************************)
EXTENDS Integers, Sequences, FiniteSets, TLC

\* ---------------------------------------------------------------- bounds
MaxMsgs == 4

\* ------------------------------------------------------- program constants
MinKeyLen == 40

None == <<"<None>">>
SK == <<"s", "k", "-">>
\* The persona prompt, by its first word.
SYSTEM_PROMPT == <<"Y", "o", "u">>
Whitespace == {" "}

\* ------------------------------------------------------------ Python bits
Truthy(x) == x # None /\ x # <<>>

StartsWith(s, p) == Len(s) >= Len(p) /\ SubSeq(s, 1, Len(p)) = p

RECURSIVE LStrip(_)
LStrip(s) ==
    IF s = <<>> THEN <<>>
    ELSE IF Head(s) \in Whitespace THEN LStrip(Tail(s)) ELSE s

RECURSIVE RStrip(_)
RStrip(s) ==
    IF s = <<>> THEN <<>>
    ELSE IF s[Len(s)] \in Whitespace THEN RStrip(SubSeq(s, 1, Len(s) - 1)) ELSE s

Strip(s) == RStrip(LStrip(s))

Contains(seq, e) == \E i \in DOMAIN seq : seq[i] = e

Msg(r, c) == [role |-> r, content |-> c]

\* ------------------------------------------------------------ input sets
KeyOf(prefix, n) == prefix \o [i \in 1..n |-> "x"]

ApiKeys ==
    { <<>>,
      KeyOf(<<"p", "k", "-">>, MinKeyLen),
      KeyOf(SK, 2),
      KeyOf(SK, MinKeyLen - 3),
      KeyOf(SK, MinKeyLen - 2) }

\* Typed questions: empty, blank, and a word with and without blanks around it.
TypedTexts ==
    { <<>>, <<" ">>, <<"q">>, <<" ", "q">>, <<"q", " ">>, <<" ", "q", " ">> }

NoFile == "None"
VoiceFiles == {NoFile, "question.wav"}

VoiceStyles ==
    { "Dramatic Stage Voice", "Warm, Noble Bard", "Aged Shakespeare",
      "Playful Jester", "Royal Court Voice", "Whispered Bard" }

\* --------------------------------------------------- remote-call outcomes
Raised == [raised |-> TRUE]
Returned(v) == [raised |-> FALSE, value |-> v]

T == <<"t">>
A == <<"a">>
ReprText == <<"r", "e", "p", "r">>

\* A transcription response: an object (attribute access) or a dict (key
\* access), whose text is missing (None), empty or T.
TranscriptionShapes == [kind : {"obj", "dict"}, text : {None, <<>>, T}]
SttOutcomes == {Raised} \cup { Returned(r) : r \in TranscriptionShapes }

\* A chat response: content reachable by attributes, by message["content"],
\* by choices[0]["message"]["content"], or not at all.
ChatShapes == [shape : {"attr", "msgkey", "choicekey", "other"}, content : {A}]
ChatOutcomes == {Raised} \cup { Returned(r) : r \in ChatShapes }

\* A speech response: its Python type, what its read / content attributes
\* do, and the keys it holds when it is a dict.
DictKeys == {"audio", "data", "content", "other"}
AudioShapes ==
    { [kind |-> k, read |-> r, content |-> c, keys |-> ks] :
        k \in {"object", "bytes", "bytearray", "dict"},
        r \in {"absent", "raises", "returns"},
        c \in {"absent", "raises", "present"},
        ks \in SUBSET DictKeys } \ 
    { s \in [kind : {"object", "bytes", "bytearray"},
             read : {"absent", "raises", "returns"},
             content : {"absent", "raises", "present"},
             keys : SUBSET DictKeys] : s.keys # {} }
NoResponse == [kind |-> "none", read |-> "absent", content |-> "absent", keys |-> {}]
TtsOutcomes == {Raised} \cup { Returned(r) : r \in AudioShapes }

ReadPayload == <<"R">>
ContentPayload == <<"C">>
BytesPayload == <<"B">>
KeyPayload(k) == <<"dict", k>>

\* ------------------------------------------------------ response helpers
safe_get_assistant_text(response) ==
    IF response.shape = "attr" THEN response.content            \* line 42
    ELSE IF response.shape = "msgkey" THEN response.content     \* line 46
    ELSE IF response.shape = "choicekey" THEN response.content  \* line 49
    ELSE ReprText                                               \* line 52

safe_get_transcription_text(transcription) ==
    LET attr == IF transcription.kind = "obj" THEN transcription.text ELSE None
    IN  IF Truthy(attr) THEN attr
        ELSE IF transcription.kind = "dict" THEN transcription.text
        ELSE None

KeyOrder == <<"audio", "data", "content">>

FirstKey(keys) ==
    IF \E i \in DOMAIN KeyOrder : KeyOrder[i] \in keys
    THEN LET i == CHOOSE j \in DOMAIN KeyOrder :
                    /\ KeyOrder[j] \in keys
                    /\ \A h \in 1..(j - 1) : KeyOrder[h] \notin keys
         IN  KeyPayload(KeyOrder[i])
    ELSE None

safe_get_audio_bytes(audio_response) ==
    IF audio_response.read # "absent"
    THEN IF audio_response.read = "raises" THEN None ELSE ReadPayload
    ELSE IF audio_response.content = "raises" THEN None
    ELSE IF audio_response.content = "present" THEN ContentPayload
    ELSE IF audio_response.kind \in {"bytes", "bytearray"} THEN BytesPayload
    ELSE IF audio_response.kind = "dict" THEN FirstKey(audio_response.keys)
    ELSE None

\* ------------------------------------------------------------ voice map
\* Lines 194-200 end in a comma: voice_map is a 1-tuple holding the dict.
voice_dict ==
    [ s \in VoiceStyles |->
        CASE s = "Dramatic Stage Voice" -> "alloy"
          [] s = "Warm, Noble Bard" -> "verse"
          [] s = "Aged Shakespeare" -> "sage"
          [] s = "Playful Jester" -> "spark"
          [] s = "Royal Court Voice" -> "duet"
          [] s = "Whispered Bard" -> "whisper" ]

voice_map == [type |-> "tuple", items |-> <<voice_dict>>]

\* container[label] for a str label: a dict looks the key up, a tuple raises
\* TypeError (tuple indices must be integers or slices, not str).
Subscript(container, label) ==
    IF container.type = "dict"
    THEN IF label \in DOMAIN container.items
         THEN Returned(container.items[label]) ELSE Raised
    ELSE Raised

\* ------------------------------------------------------------------ state
VARIABLES
    messages,        \* st.session_state.messages
    api_key,         \* sidebar text input, as seen by the last script run
    sidebar,         \* sidebar verdict on api_key: "success", "warning", "info"
    user_question,   \* text input of the last Submit
    voice_file,      \* uploaded file of the last Submit (its type) or NoFile
    voice_style,     \* selectbox value of the last Submit
    final_question,  \* final_question of the last Submit, None if not computed
    trans_text,      \* trans_text of the last Submit, None if not computed
    chat_messages,   \* messages argument of the last Submit's chat call, <<>> if none
    audio_response,  \* response handed to safe_get_audio_bytes, NoResponse if none
    audio_bytes,     \* result of safe_get_audio_bytes, None if none
    trace,           \* file operations and remote calls of the last run, in order
    shown,           \* st.* notices of the last run, in order
    status,          \* how the last run ended
    event,           \* the widget event of the last run
    prev_messages    \* st.session_state.messages when the last run started

vars ==
    << messages, api_key, sidebar, user_question, voice_file, voice_style,
       final_question, trans_text, chat_messages, audio_response, audio_bytes,
       trace, shown, status, event, prev_messages >>

\* The locals of one script run.
Fresh(msgs) ==
    [ messages |-> msgs, final_question |-> None, trans_text |-> None,
      chat_messages |-> <<>>, audio_response |-> NoResponse,
      audio_bytes |-> None, trace |-> <<>>, shown |-> <<>> ]

Init ==
    /\ messages = <<>>
    /\ api_key = <<>>
    /\ sidebar = "info"
    /\ user_question = <<>>
    /\ voice_file = NoFile
    /\ voice_style = "Dramatic Stage Voice"
    /\ final_question = None
    /\ trans_text = None
    /\ chat_messages = <<>>
    /\ audio_response = NoResponse
    /\ audio_bytes = None
    /\ trace = <<>>
    /\ shown = <<>>
    /\ status = "idle"
    /\ event = "load"
    /\ prev_messages = <<>>

\* The run ends with locals L: session state and page are what L says.
Exit(L, st) ==
    /\ Len(L.messages) <= MaxMsgs
    /\ messages' = L.messages
    /\ final_question' = L.final_question
    /\ trans_text' = L.trans_text
    /\ chat_messages' = L.chat_messages
    /\ audio_response' = L.audio_response
    /\ audio_bytes' = L.audio_bytes
    /\ trace' = L.trace
    /\ shown' = L.shown
    /\ status' = st

Show(L, notice) == [L EXCEPT !.shown = Append(@, notice)]
Log(L, what) == [L EXCEPT !.trace = Append(@, what)]

\* ---------------------------------------------------------------- sidebar
SidebarCheck(key) ==
    IF Truthy(key) /\ StartsWith(key, SK) /\ Len(key) > MinKeyLen THEN "success"
    ELSE IF Truthy(key) THEN "warning"
    ELSE "info"

\* ------------------------------------------------- reruns without Submit
\* Any widget change reruns the script with submit and clear False: the
\* page is drawn again and session state is left alone.
Rerun ==
    /\ prev_messages' = messages
    /\ event' = "rerun"
    /\ Exit(Fresh(messages), "idle")

EnterApiKey ==
    \E key \in ApiKeys :
        /\ key # api_key
        /\ api_key' = key
        /\ sidebar' = SidebarCheck(key)
        /\ UNCHANGED << user_question, voice_file, voice_style >>
        /\ Rerun

TypeQuestion ==
    \E question \in TypedTexts :
        /\ question # user_question
        /\ user_question' = question
        /\ UNCHANGED << api_key, sidebar, voice_file, voice_style >>
        /\ Rerun

UploadVoice ==
    \E file \in VoiceFiles :
        /\ file # voice_file
        /\ voice_file' = file
        /\ UNCHANGED << api_key, sidebar, user_question, voice_style >>
        /\ Rerun

ChooseVoiceStyle ==
    \E style \in VoiceStyles :
        /\ style # voice_style
        /\ voice_style' = style
        /\ UNCHANGED << api_key, sidebar, user_question, voice_file >>
        /\ Rerun

\* ------------------------------------------------------------------ Clear
Clear ==
    /\ prev_messages' = messages
    /\ event' = "clear"
    /\ UNCHANGED << api_key, sidebar, user_question, voice_file, voice_style >>
    /\ Exit(Fresh(<<>>), "idle")

\* ----------------------------------------------------------------- Submit
ApiKeyRejected(key) == ~Truthy(key) \/ ~StartsWith(key, SK)

\* EnsureSystemPrompt without the "not any(...)" test of line 138.
EnsureSystemPrompt_Always(msgs) == <<Msg("system", SYSTEM_PROMPT)>> \o msgs

EnsureSystemPrompt(msgs) ==
    IF \E i \in DOMAIN msgs : msgs[i].role = "system" THEN msgs
    ELSE <<Msg("system", SYSTEM_PROMPT)>> \o msgs

\* UseTranscript with the typed text kept whenever it is non-empty.
UseTranscript_TypedWins(L, text) ==
    IF Truthy(text) /\ ~Truthy(L.final_question)
    THEN Show([L EXCEPT !.trans_text = text, !.final_question = text], "md_transcribed")
    ELSE Show([L EXCEPT !.trans_text = text], "warn_no_transcript")

\* lines 156-161: the transcript replaces the typed text when it is truthy
UseTranscript(L, text) ==
    IF Truthy(text)
    THEN Show([L EXCEPT !.trans_text = text, !.final_question = text], "md_transcribed")
    ELSE Show([L EXCEPT !.trans_text = text], "warn_no_transcript")

\* lines 151-163: the transcription call and its except clause
Transcribe(L, stt) ==
    IF stt.raised
    THEN Show(Log(Log(L, "stt_call"), "stt_raise"), "err_transcription")
    ELSE UseTranscript(Log(Log(L, "stt_call"), "stt_ok"),
                       safe_get_transcription_text(stt.value))

\* lines 164-168: os.remove in the finally clause, its failure swallowed
RemoveTmp(L, remove_ok) ==
    Log(L, IF remove_ok THEN "tmp_remove" ELSE "tmp_remove_raise")

\* AppendUser with the append of line 175 left out.
AppendUser_Skipped(L) == L

AppendUser(L) ==
    [L EXCEPT !.messages = Append(@, Msg("user", L.final_question))]

AppendAssistant(L, reply) ==
    [L EXCEPT !.messages = Append(@, Msg("assistant", reply))]

\* ChatExcept with a reply appended although the request failed.
ChatExcept_AppendsReply(L) ==
    Exit(Show(AppendAssistant(L, ReprText), "err_openai"), "failed")

\* lines 218-219: the except clause of the outer try
ChatExcept(L) == Exit(Show(L, "err_openai"), "failed")

\* lines 203-216: the speech call, safe_get_audio_bytes, st.audio
SpeechCall(L, tts) ==
    IF tts.raised
    THEN Show(Log(Log(L, "tts_call"), "tts_raise"), "warn_tts")
    ELSE LET bytes == safe_get_audio_bytes(tts.value)
             L1 == [Log(Log(L, "tts_call"), "tts_ok")
                       EXCEPT !.audio_response = tts.value, !.audio_bytes = bytes]
         IN  IF Truthy(bytes) THEN Show(L1, "audio") ELSE Show(L1, "warn_no_audio")

\* lines 193-216: voice_map[voice_style] raises into the outer try
SpeechBlock(L, style) ==
    LET chosen_voice == Subscript(voice_map, style)
    IN  IF chosen_voice.raised
        THEN ChatExcept(Log(L, "voice_lookup_raise"))
        ELSE \E tts \in TtsOutcomes : Exit(SpeechCall(L, tts), "done")

\* lines 187-192: the reply is appended and shown
ChatReturned(L, response) ==
    LET assistant_reply == safe_get_assistant_text(response)
    IN  Show(Show(AppendAssistant(Log(L, "chat_ok"), assistant_reply), "success"), "reply")

\* lines 170-219
AskChat(L, style) ==
    IF ~Truthy(L.final_question)
    THEN Exit(Show(L, "warn_empty"), "stopped")
    ELSE LET L1 == AppendUser(L)
             L2 == Log([L1 EXCEPT !.chat_messages = L1.messages], "chat_call")
         IN  \E chat \in ChatOutcomes :
                IF chat.raised
                THEN ChatExcept(Log(L2, "chat_raise"))
                ELSE SpeechBlock(ChatReturned(L2, chat.value), style)

\* lines 144-168: the temporary file is created and written outside the try
TranscriptionBlock(L, style) ==
    \E write_ok \in BOOLEAN :
        IF ~write_ok
        THEN Exit(Show(Log(Log(L, "tmp_create"), "tmp_write_raise"), "exception"), "crashed")
        ELSE \E stt \in SttOutcomes, remove_ok \in BOOLEAN :
                AskChat(RemoveTmp(Transcribe(Show(Log(L, "tmp_create"), "info_transcribing"), stt),
                                  remove_ok),
                        style)

Submit ==
    /\ UNCHANGED << api_key, sidebar, user_question, voice_file, voice_style >>
    /\ prev_messages' = messages
    /\ event' = "submit"
    /\ IF ApiKeyRejected(api_key)
       THEN Exit(Show(Fresh(messages), "warn_api_key"), "blocked")
       ELSE LET L == [Fresh(EnsureSystemPrompt(messages))
                         EXCEPT !.final_question = Strip(user_question)]
            IN  IF voice_file = NoFile
                THEN AskChat(L, voice_style)
                ELSE TranscriptionBlock(L, voice_style)

Next ==
    \/ EnterApiKey
    \/ TypeQuestion
    \/ UploadVoice
    \/ ChooseVoiceStyle
    \/ Clear
    \/ Submit

Spec == Init /\ [][Next]_vars

\* ------------------------------------------- safe_get_audio_bytes alone
\* The helper applied to every response shape.
InitAudio ==
    /\ messages = <<>>
    /\ api_key = <<>>
    /\ sidebar = "info"
    /\ user_question = <<>>
    /\ voice_file = NoFile
    /\ voice_style = "Dramatic Stage Voice"
    /\ final_question = None
    /\ trans_text = None
    /\ chat_messages = <<>>
    /\ audio_response \in AudioShapes
    /\ audio_bytes = None
    /\ trace = <<>>
    /\ shown = <<>>
    /\ status = "idle"
    /\ event = "load"
    /\ prev_messages = <<>>

ExtractAudio ==
    /\ event = "load"
    /\ audio_bytes' = safe_get_audio_bytes(audio_response)
    /\ event' = "extract"
    /\ UNCHANGED << messages, api_key, sidebar, user_question, voice_file,
                    voice_style, final_question, trans_text, chat_messages,
                    audio_response, trace, shown, status, prev_messages >>

NextAudio == ExtractAudio

SpecAudio == InitAudio /\ [][NextAudio]_vars

\* ------------------------------------------------------------ properties
Submitted == event = "submit"
Before(tr, a, b) == \E i, j \in DOMAIN tr : i < j /\ tr[i] = a /\ tr[j] = b
SystemIndexes(msgs) == { i \in DOMAIN msgs : msgs[i].role = "system" }
RemoteCalls == {"stt_call", "chat_call", "tts_call"}
NoUsableTranscript ==
    \/ voice_file = NoFile
    \/ Contains(trace, "stt_raise")
    \/ Contains(trace, "stt_ok") /\ ~Truthy(trans_text)

\* C1 (as amended): once the credential gate is passed and the upload is
\* written, the final question is the transcript when an audio file is
\* supplied and transcription yields non-empty text, and the stripped typed
\* text otherwise; a transcription failure does not stop the submission
\* when the stripped typed text is non-empty.
C1_Selection ==
    (Submitted /\ status \in {"stopped", "failed", "done"}) =>
        final_question =
            IF voice_file # NoFile /\ Truthy(trans_text)
            THEN trans_text ELSE Strip(user_question)

C1_FinalQuestion ==
    /\ C1_Selection
    /\ (Submitted /\ Contains(trace, "stt_raise") /\ Strip(user_question) # <<>>)
           => Contains(trace, "chat_call")

C1_Witness ==
    /\ Submitted
    /\ Contains(trace, "stt_raise")
    /\ user_question # Strip(user_question)
    /\ final_question = Strip(user_question)
    /\ Contains(trace, "chat_call")

\* C1 (as claimed): the same selection, and a transcription failure never
\* stops the submission when the typed text is non-empty.
C1_AsClaimed ==
    /\ C1_Selection
    /\ (Submitted /\ Contains(trace, "stt_raise") /\ user_question # <<>>)
           => Contains(trace, "chat_call")

\* C2: a submission with empty typed text and no usable transcript issues
\* no chat or speech call and leaves the conversation as it was.
C2_EmptyInputHalt ==
    (Submitted /\ status = "stopped" /\ user_question = <<>> /\ NoUsableTranscript) =>
        /\ ~Contains(trace, "chat_call")
        /\ ~Contains(trace, "tts_call")
        /\ messages = prev_messages

\* C3: when the chat call succeeded and voice resolution or the speech call
\* raised, the reply is appended and shown, no audio is produced and the
\* failure is a TTS warning, not the chat-request error.
C3_SpeechFailureNonFatal ==
    (Submitted /\ Contains(trace, "chat_ok")
       /\ (Contains(trace, "voice_lookup_raise") \/ Contains(trace, "tts_raise"))) =>
        /\ messages[Len(messages)].role = "assistant"
        /\ Contains(shown, "reply")
        /\ audio_bytes = None
        /\ ~Contains(shown, "audio")
        /\ Contains(shown, "warn_tts")
        /\ ~Contains(shown, "err_openai")

\* C4: when the chat call raises, no speech call follows, no assistant
\* message is appended and the error is reported; a speech call is issued
\* only after the chat call of the same submission returned.
C4_ChatFailureHalts ==
    /\ Contains(trace, "chat_raise") =>
          /\ ~Contains(trace, "tts_call")
          /\ messages = chat_messages
          /\ messages[Len(messages)].role = "user"
          /\ Contains(shown, "err_openai")
          /\ ~Contains(shown, "reply")
    /\ Contains(trace, "tts_call") => Before(trace, "chat_ok", "tts_call")

C4_Witness ==
    /\ Submitted
    /\ Contains(trace, "chat_raise")
    /\ status = "failed"
    /\ Len(prev_messages) >= 2

\* C5: the conversation holds at most one system message, which is first
\* when present, and every list passed to the chat call starts with the
\* only system message it holds.
C5_SystemMessage ==
    /\ Cardinality(SystemIndexes(messages)) <= 1
    /\ SystemIndexes(messages) # {} => messages[1].role = "system"
    /\ chat_messages # <<>> => SystemIndexes(chat_messages) = {1}

C5_Witness ==
    /\ Submitted
    /\ SystemIndexes(prev_messages) = {1}
    /\ chat_messages # <<>>
    /\ SystemIndexes(chat_messages) = {1}

\* C6: for every selectable style the voice_map lookup of a submission
\* returns a non-empty voice identifier and the speech call is reached.
C6_VoiceStyleResolves ==
    (Submitted /\ Contains(trace, "chat_ok")) =>
        /\ ~Subscript(voice_map, voice_style).raised
        /\ Subscript(voice_map, voice_style).value # ""
        /\ Contains(trace, "tts_call")

\* C7: a temporary file that was created is removed before the
\* transcription step returns, on every exit path, and before the chat call.
C7_TempFileScoped ==
    Contains(trace, "tmp_create") =>
        /\ Contains(trace, "tmp_remove")
        /\ Contains(trace, "chat_call") => Before(trace, "tmp_remove", "chat_call")

\* C8: a Submit with a credential the credential check does not accept
\* issues no remote call and leaves the conversation as it was.
C8_CredentialGate ==
    (Submitted /\ sidebar # "success") =>
        /\ \A i \in DOMAIN trace : trace[i] \notin RemoteCalls
        /\ messages = prev_messages

\* C9: safe_get_audio_bytes returns the payload of the first strategy, in
\* the order read, content, bytes, dict keys, that succeeds, a strategy
\* that fails being skipped, and None only when none succeeds.
ClaimedAudioBytes(r) ==
    IF r.read = "returns" THEN ReadPayload
    ELSE IF r.content = "present" THEN ContentPayload
    ELSE IF r.kind \in {"bytes", "bytearray"} THEN BytesPayload
    ELSE IF r.kind = "dict" THEN FirstKey(r.keys)
    ELSE None

C9_ExtractionFallsThrough ==
    event = "extract" => audio_bytes = ClaimedAudioBytes(audio_response)

\* C10: every assistant message directly follows a user message (a user
\* message need not be followed by an assistant message).
C10_AssistantAfterUser ==
    \A i \in DOMAIN messages :
        messages[i].role = "assistant" => (i > 1 /\ messages[i - 1].role = "user")

C10_Witness ==
    /\ \E i \in DOMAIN messages : messages[i].role = "assistant"
    /\ \E i \in DOMAIN messages :
          /\ i < Len(messages)
          /\ messages[i].role = "user"
          /\ messages[i + 1].role = "user"

====
